---- MODULE Spec2Model ----
(***************************************************************************)
(* goat-frame: the frame server of src/goat-frame/src.                     *)
(*                                                                         *)
(* GET  /           -> index         (main.rs:31-60)                       *)
(* POST /api/frame  -> handle_frame  (main.rs:62-84), which calls          *)
(*                     frame_logic::process_button (frame_logic.rs:11-48)  *)
(*                                                                         *)
(* Strings are TLA+ strings, format! is concatenation.  A multi-line       *)
(* string (the HTML document) is the sequence of its lines.  A Rust        *)
(* Result is [ok |-> TRUE, val |-> v] or [ok |-> FALSE, err |-> e].        *)
(* Neither handler awaits anything, so a handler runs to completion on     *)
(* its worker; concurrency is several requests in flight, served and       *)
(* delivered in any order.  Logging (info!, error!) writes no state the    *)
(* program reads and is left out.                                          *)
(***************************************************************************)
EXTENDS Integers, Sequences, FiniteSets, Bags, TLC

VARIABLES
    config,     \* web::Data<Config>, built once in main and shared by all workers
    inflight,   \* bag of requests in the transport: sent, or answered and not yet delivered
    card        \* the frame the rendering surface currently shows

vars == <<config, inflight, card>>

(***************************************************************************)
(* Bounds and input sets                                                   *)
(***************************************************************************)
\* number of requests that may be in flight at once
MaxInFlight == 2

\* values of the DOMAIN environment variable
Domains == {"http://localhost", "https://frame.goat.network/", ""}

\* values a caller may put in untrusted_data.button_index of the JSON body
RawIndices == {-1, 0, 2, 999, 2147483647}

(***************************************************************************)
(* String helpers                                                          *)
(***************************************************************************)
StartsWith(s, p) == Len(s) >= Len(p) /\ SubSeq(s, 1, Len(p)) = p

EndsWith(s, p) == Len(s) >= Len(p) /\ SubSeq(s, Len(s) - Len(p) + 1, Len(s)) = p

Digits == <<"0", "1", "2", "3", "4", "5", "6", "7", "8", "9">>

\* Display for usize, as format!("{}", n) prints it: decimal, no leading zeros
RECURSIVE FmtUsize(_)
FmtUsize(n) ==
    IF n < 10 THEN Digits[n + 1]
    ELSE FmtUsize(n \div 10) \o Digits[(n % 10) + 1]

(***************************************************************************)
(* config.rs, frame_logic.rs                                               *)
(***************************************************************************)
Config(domain) == [domain |-> domain]

Button(label) == [label |-> label]

Ok(v) == [ok |-> TRUE, val |-> v]

Err(e) == [ok |-> FALSE, err |-> e]

BadRequest(msg) == [kind |-> "BadRequest", msg |-> msg]

InternalServerError == [kind |-> "InternalServerError"]

\* process_button with the first arm written `0 | 1 =>`
process_button_zero_based(button_index, cfg) ==
    CASE button_index \in {0, 1} ->
            Ok(<<cfg.domain \o "/assets/buy_boost.png",
                 <<Button("Confirm"), Button("Back")>> >>)
      [] button_index = 2 ->
            Ok(<<cfg.domain \o "/assets/add_liquidity.png",
                 <<Button("Add"), Button("Back")>> >>)
      [] button_index = 3 ->
            Ok(<<cfg.domain \o "/assets/gift.png",
                 <<Button("Send Gift"), Button("Back")>> >>)
      [] button_index = 4 ->
            Ok(<<cfg.domain \o "/assets/more.png",
                 <<Button("Reward"), Button("Bid"), Button("Top-up"), Button("Back")>> >>)
      [] OTHER ->
            Err(BadRequest("Invalid button index: " \o FmtUsize(button_index)))

\* process_button with the gift image given as a path, without the domain
process_button_relative(button_index, cfg) ==
    CASE button_index = 1 ->
            Ok(<<cfg.domain \o "/assets/buy_boost.png",
                 <<Button("Confirm"), Button("Back")>> >>)
      [] button_index = 2 ->
            Ok(<<cfg.domain \o "/assets/add_liquidity.png",
                 <<Button("Add"), Button("Back")>> >>)
      [] button_index = 3 ->
            Ok(<<"/assets/gift.png",
                 <<Button("Send Gift"), Button("Back")>> >>)
      [] button_index = 4 ->
            Ok(<<cfg.domain \o "/assets/more.png",
                 <<Button("Reward"), Button("Bid"), Button("Top-up"), Button("Back")>> >>)
      [] OTHER ->
            Err(BadRequest("Invalid button index: " \o FmtUsize(button_index)))

\* process_button with two labels of the fourth arm in the other order
process_button_reordered(button_index, cfg) ==
    CASE button_index = 1 ->
            Ok(<<cfg.domain \o "/assets/buy_boost.png",
                 <<Button("Confirm"), Button("Back")>> >>)
      [] button_index = 2 ->
            Ok(<<cfg.domain \o "/assets/add_liquidity.png",
                 <<Button("Add"), Button("Back")>> >>)
      [] button_index = 3 ->
            Ok(<<cfg.domain \o "/assets/gift.png",
                 <<Button("Send Gift"), Button("Back")>> >>)
      [] button_index = 4 ->
            Ok(<<cfg.domain \o "/assets/more.png",
                 <<Button("Reward"), Button("Top-up"), Button("Bid"), Button("Back")>> >>)
      [] OTHER ->
            Err(BadRequest("Invalid button index: " \o FmtUsize(button_index)))

\* process_button that remembers the frame on show: while the gift frame is
\* up, its first button sends the gift instead of opening buy_boost
process_button_sticky(button_index, cfg) ==
    CASE button_index = 1 /\ card.buttons # <<>> /\ card.buttons[1] = "Send Gift" ->
            Ok(<<cfg.domain \o "/assets/gift_sent.png", <<Button("Back")>> >>)
      [] button_index = 1 /\ ~(card.buttons # <<>> /\ card.buttons[1] = "Send Gift") ->
            Ok(<<cfg.domain \o "/assets/buy_boost.png",
                 <<Button("Confirm"), Button("Back")>> >>)
      [] button_index = 2 ->
            Ok(<<cfg.domain \o "/assets/add_liquidity.png",
                 <<Button("Add"), Button("Back")>> >>)
      [] button_index = 3 ->
            Ok(<<cfg.domain \o "/assets/gift.png",
                 <<Button("Send Gift"), Button("Back")>> >>)
      [] button_index = 4 ->
            Ok(<<cfg.domain \o "/assets/more.png",
                 <<Button("Reward"), Button("Bid"), Button("Top-up"), Button("Back")>> >>)
      [] OTHER ->
            Err(BadRequest("Invalid button index: " \o FmtUsize(button_index)))

\* process_button whose reason prints the index cast to u8
process_button_u8(button_index, cfg) ==
    CASE button_index = 1 ->
            Ok(<<cfg.domain \o "/assets/buy_boost.png",
                 <<Button("Confirm"), Button("Back")>> >>)
      [] button_index = 2 ->
            Ok(<<cfg.domain \o "/assets/add_liquidity.png",
                 <<Button("Add"), Button("Back")>> >>)
      [] button_index = 3 ->
            Ok(<<cfg.domain \o "/assets/gift.png",
                 <<Button("Send Gift"), Button("Back")>> >>)
      [] button_index = 4 ->
            Ok(<<cfg.domain \o "/assets/more.png",
                 <<Button("Reward"), Button("Bid"), Button("Top-up"), Button("Back")>> >>)
      [] OTHER ->
            Err(BadRequest("Invalid button index: " \o FmtUsize(button_index % 256)))

process_button(button_index, cfg) ==
    CASE button_index = 1 ->
            Ok(<<cfg.domain \o "/assets/buy_boost.png",
                 <<Button("Confirm"), Button("Back")>> >>)
      [] button_index = 2 ->
            Ok(<<cfg.domain \o "/assets/add_liquidity.png",
                 <<Button("Add"), Button("Back")>> >>)
      [] button_index = 3 ->
            Ok(<<cfg.domain \o "/assets/gift.png",
                 <<Button("Send Gift"), Button("Back")>> >>)
      [] button_index = 4 ->
            Ok(<<cfg.domain \o "/assets/more.png",
                 <<Button("Reward"), Button("Bid"), Button("Top-up"), Button("Back")>> >>)
      [] OTHER ->
            Err(BadRequest("Invalid button index: " \o FmtUsize(button_index)))

(***************************************************************************)
(* main.rs                                                                 *)
(***************************************************************************)
\* usize has no negative values: serde refuses them before the handler runs
IsUsize(raw) == raw \in Nat

FrameRequest(button_index) == [untrusted_data |-> [button_index |-> button_index]]

FrameResponse(image, buttons) == [image |-> image, buttons |-> buttons]

HttpOkHtml(body) == [status |-> 200, content_type |-> "text/html", body |-> body]

HttpOkJson(body) == [status |-> 200, content_type |-> "application/json", body |-> body]

\* the document with the labels of buttons 2 and 3 exchanged
IndexHtml_exchanged(domain) ==
    << "",
       "    <!DOCTYPE html>",
       "    <html lang=\"en\">",
       "    <head>",
       "        <meta charset=\"UTF-8\">",
       "        <meta name=\"viewport\" content=\"width=device-width, initial-scale=1.0\">",
       "        <title>Moxie Store Frame</title>",
       "        <meta property=\"fc:frame\" content=\"vNext\" />",
       "        <meta property=\"fc:frame:image\" content=\"" \o domain \o "/assets/main.png\" />",
       "        <meta property=\"fc:frame:button:1\" content=\"Buy & Boost\" />",
       "        <meta property=\"fc:frame:button:2\" content=\"Gift\" />",
       "        <meta property=\"fc:frame:button:3\" content=\"Add Liquidity\" />",
       "        <meta property=\"fc:frame:button:4\" content=\"More\" />",
       "        <meta property=\"fc:frame:post_url\" content=\"" \o domain \o "/api/frame\" />",
       "    </head>",
       "    <body>",
       "        <h1>Moxie Store Frame</h1>",
       "    </body>",
       "    </html>",
       "    " >>

\* the document format! builds in index, line by line
IndexHtml(domain) ==
    << "",
       "    <!DOCTYPE html>",
       "    <html lang=\"en\">",
       "    <head>",
       "        <meta charset=\"UTF-8\">",
       "        <meta name=\"viewport\" content=\"width=device-width, initial-scale=1.0\">",
       "        <title>Moxie Store Frame</title>",
       "        <meta property=\"fc:frame\" content=\"vNext\" />",
       "        <meta property=\"fc:frame:image\" content=\"" \o domain \o "/assets/main.png\" />",
       "        <meta property=\"fc:frame:button:1\" content=\"Buy & Boost\" />",
       "        <meta property=\"fc:frame:button:2\" content=\"Add Liquidity\" />",
       "        <meta property=\"fc:frame:button:3\" content=\"Gift\" />",
       "        <meta property=\"fc:frame:button:4\" content=\"More\" />",
       "        <meta property=\"fc:frame:post_url\" content=\"" \o domain \o "/api/frame\" />",
       "    </head>",
       "    <body>",
       "        <h1>Moxie Store Frame</h1>",
       "    </body>",
       "    </html>",
       "    " >>

\* is_empty asked of the first line of the document only
is_empty_first_line(html) == Len(html) = 0 \/ Len(html[1]) = 0

\* String::is_empty on a document held as its lines
is_empty(html) == \A i \in 1..Len(html) : Len(html[i]) = 0 /\ Len(html) <= 1

index(cfg) ==
    LET html == IndexHtml(cfg.domain) IN
    IF is_empty(html)
    THEN Err(InternalServerError)
    ELSE Ok(HttpOkHtml(html))

\* handle_frame with `?` on the resolver's result
handle_frame_propagate(req, cfg) ==
    LET result == process_button(req.untrusted_data.button_index, cfg) IN
    IF result.ok
    THEN Ok(HttpOkJson(FrameResponse(result.val[1], result.val[2])))
    ELSE Err(result.err)

\* handle_frame answering with room for two buttons only
handle_frame_two_buttons(req, cfg) ==
    LET result == process_button(req.untrusted_data.button_index, cfg) IN
    IF result.ok
    THEN Ok(HttpOkJson(FrameResponse(result.val[1], SubSeq(result.val[2], 1, 2))))
    ELSE Ok(HttpOkJson(FrameResponse(cfg.domain \o "/assets/main.png",
                                     <<Button("Error Occurred"), Button("Try Again")>>)))

\* handle_frame that takes "Back" and "Try Again" at position 2 back to the
\* entry card
handle_frame_back_home(req, cfg) ==
    LET result == process_button(req.untrusted_data.button_index, cfg) IN
    IF result.ok /\ req.untrusted_data.button_index # 2
    THEN Ok(HttpOkJson(FrameResponse(result.val[1], result.val[2])))
    ELSE IF result.ok
    THEN Ok(HttpOkJson(FrameResponse(cfg.domain \o "/assets/main.png",
                                     <<Button("Buy & Boost"), Button("Add Liquidity"),
                                       Button("Gift"), Button("More")>>)))
    ELSE Ok(HttpOkJson(FrameResponse(cfg.domain \o "/assets/main.png",
                                     <<Button("Error Occurred"), Button("Try Again")>>)))

handle_frame(req, cfg) ==
    LET result == process_button(req.untrusted_data.button_index, cfg) IN
    IF result.ok
    THEN Ok(HttpOkJson(FrameResponse(result.val[1], result.val[2])))
    ELSE Ok(HttpOkJson(FrameResponse(cfg.domain \o "/assets/main.png",
                                     <<Button("Error Occurred"), Button("Try Again")>>)))

(***************************************************************************)
(* The caller: a rendering surface (or any untrusted client)               *)
(***************************************************************************)
RECURSIVE TrimLeft(_)
TrimLeft(s) ==
    IF Len(s) > 0 /\ SubSeq(s, 1, 1) = " " THEN TrimLeft(SubSeq(s, 2, Len(s))) ELSE s

MetaOpen(property) == "<meta property=\"" \o property \o "\" content=\""

MetaClose == "\" />"

\* t, a line without its indentation, is the tag <meta property="..." content="..." />
IsMeta(t, property) ==
    /\ StartsWith(t, MetaOpen(property))
    /\ EndsWith(t, MetaClose)
    /\ Len(t) >= Len(MetaOpen(property)) + Len(MetaClose)

\* number of the first line at or after line i of doc that is the tag of
\* this property, 0 when there is none
RECURSIVE FindMeta(_, _, _)
FindMeta(doc, property, i) ==
    IF i > Len(doc) THEN 0
    ELSE IF IsMeta(doc[i], property) THEN i
    ELSE FindMeta(doc, property, i + 1)

\* content of the first such tag, "" when there is none
MetaContent(doc, property) ==
    LET i == FindMeta(doc, property, 1) IN
    IF i = 0 THEN ""
    ELSE SubSeq(doc[i], Len(MetaOpen(property)) + 1, Len(doc[i]) - Len(MetaClose))

ButtonProperty(k) == "fc:frame:button:" \o FmtUsize(k)

\* the frame a surface reads from the entry document's fc:frame tags; the
\* buttons are those numbered 1, 2, ... without a gap, four at most
ParseFrame(html) ==
    LET doc == [i \in 1..Len(html) |-> TrimLeft(html[i])]
        has == [k \in 1..4 |-> FindMeta(doc, ButtonProperty(k), 1) # 0]
        n   == Cardinality({k \in 1..4 : \A j \in 1..k : has[j]})
    IN  [version  |-> MetaContent(doc, "fc:frame"),
         image    |-> MetaContent(doc, "fc:frame:image"),
         buttons  |-> [k \in 1..n |-> MetaContent(doc, ButtonProperty(k))],
         post_url |-> MetaContent(doc, "fc:frame:post_url")]

Labels(buttons) == [k \in 1..Len(buttons) |-> buttons[k].label]

NoCard == [image |-> "", buttons |-> <<>>]

\* the card shown after a response arrives
Render(r) ==
    IF ~r.ret.ok THEN card
    ELSE IF r.kind = "entry"
         THEN LET f == ParseFrame(r.ret.val.body)
              IN  [image |-> f.image, buttons |-> f.buttons]
         ELSE [image   |-> r.ret.val.body.image,
               buttons |-> Labels(r.ret.val.body.buttons)]

(***************************************************************************)
(* Requests                                                                *)
(***************************************************************************)
EntryRequest == [kind |-> "entry", pc |-> "sent"]

\* pos and label say which button of the shown card was pressed (0, "" when
\* the body was written by hand)
ActionRequest(raw, pos, label) ==
    [kind |-> "action", button_index |-> raw, pos |-> pos, label |-> label, pc |-> "sent"]

Answered(r, by, ret) ==
    IF r.kind = "entry"
    THEN [kind |-> "entry", pc |-> "answered", by |-> by, ret |-> ret]
    ELSE [kind |-> "action", button_index |-> r.button_index, pos |-> r.pos,
          label |-> r.label, pc |-> "answered", by |-> by, ret |-> ret]

\* a request handle_frame answered, with the process_button call it made:
\* the domain the call read and the Result it returned
AnsweredFrame(r, cfg) ==
    [kind |-> "action", button_index |-> r.button_index, pos |-> r.pos,
     label |-> r.label, pc |-> "answered", by |-> "handle_frame",
     ret |-> handle_frame(FrameRequest(r.button_index), cfg),
     domain |-> cfg.domain,
     result |-> process_button(r.button_index, cfg)]

Requests == BagToSet(inflight)

Put(r) == inflight (+) SetToBag({r})

Take(r) == inflight (-) SetToBag({r})

Init ==
    /\ config \in {Config(d) : d \in Domains}
    /\ inflight = EmptyBag
    /\ card = NoCard

\* GET /
GetIndex ==
    /\ BagCardinality(inflight) < MaxInFlight
    /\ inflight' = Put(EntryRequest)
    /\ UNCHANGED <<config, card>>

\* POST /api/frame with a body the caller wrote
PostFrame ==
    \E raw \in RawIndices :
        /\ BagCardinality(inflight) < MaxInFlight
        /\ inflight' = Put(ActionRequest(raw, 0, ""))
        /\ UNCHANGED <<config, card>>

\* POST /api/frame with the position of a button of the shown card
PressButton ==
    \E k \in 1..Len(card.buttons) :
        /\ BagCardinality(inflight) < MaxInFlight
        /\ inflight' = Put(ActionRequest(k, k, card.buttons[k]))
        /\ UNCHANGED <<config, card>>

\* route "/" -> index
ServeIndex ==
    \E r \in Requests :
        /\ r.kind = "entry" /\ r.pc = "sent"
        /\ inflight' = Take(r) (+) SetToBag({Answered(r, "index", index(config))})
        /\ UNCHANGED <<config, card>>

\* route "/api/frame": web::Json<FrameRequest> cannot be built from the body
RejectFrame ==
    \E r \in Requests :
        /\ r.kind = "action" /\ r.pc = "sent"
        /\ ~IsUsize(r.button_index)
        /\ inflight' = Take(r) (+)
               SetToBag({Answered(r, "extractor", Err([kind |-> "JsonPayloadError"]))})
        /\ UNCHANGED <<config, card>>

\* route "/api/frame" -> handle_frame
ServeFrame ==
    \E r \in Requests :
        /\ r.kind = "action" /\ r.pc = "sent"
        /\ IsUsize(r.button_index)
        /\ inflight' = Take(r) (+) SetToBag({AnsweredFrame(r, config)})
        /\ UNCHANGED <<config, card>>

\* the response reaches the caller
Deliver ==
    \E r \in Requests :
        /\ r.pc = "answered"
        /\ inflight' = Take(r)
        /\ card' = Render(r)
        /\ UNCHANGED config

Next ==
    \/ GetIndex
    \/ PostFrame
    \/ PressButton
    \/ ServeIndex
    \/ RejectFrame
    \/ ServeFrame
    \/ Deliver

Spec == Init /\ [][Next]_vars

(***************************************************************************)
(* Properties                                                              *)
(***************************************************************************)
\* requests handle_frame has answered and the caller has not yet received
Handled == {r \in Requests : r.pc = "answered" /\ r.by = "handle_frame"}

\* entry requests answered and not yet received
Entered == {r \in Requests : r.pc = "answered" /\ r.kind = "entry"}

MainImage == config.domain \o "/assets/main.png"

\* C1: for every button index outside {1,2,3,4} (0 and large values alike)
\* process_button returns the error variant, of one and the same kind, and
\* never a next state.
C1_InvalidIndexIsError ==
    \A r \in Handled :
        r.button_index \notin {1, 2, 3, 4} =>
            /\ ~r.result.ok
            /\ DOMAIN r.result = {"ok", "err"}
            /\ r.result.err.kind = "BadRequest"

C1_Witness ==
    /\ \E r \in Handled : r.button_index = 0 /\ ~r.result.ok
    /\ \E r \in Handled : r.button_index = 999 /\ ~r.result.ok

\* C2: handle_frame answers every button index it is handed with a success
\* status; for an index outside the table the payload is exactly the fixed
\* fallback (main image, "Error Occurred", "Try Again") and the resolver's
\* error does not reach the caller.
C2_AlwaysSuccessWithFallback ==
    \A r \in Handled :
        /\ r.ret.ok
        /\ r.ret.val.status \in 200..299
        /\ r.button_index \notin {1, 2, 3, 4} =>
              r.ret.val.body =
                  [image   |-> config.domain \o "/assets/main.png",
                   buttons |-> <<[label |-> "Error Occurred"], [label |-> "Try Again"]>>]

C2_Witness ==
    \E r \in Handled :
        /\ r.button_index = 999
        /\ ~r.result.ok
        /\ r.ret.ok
        /\ r.ret.val.body.buttons[1].label = "Error Occurred"

\* C3: for every index in {1,2,3,4} and every domain, process_button returns a
\* next state whose button list has between 1 and 4 entries and whose image
\* URL starts with the configured domain.
C3_ValidIndexIsWellFormed ==
    \A r \in Handled :
        r.button_index \in {1, 2, 3, 4} =>
            /\ r.result.ok
            /\ Len(r.result.val[2]) \in 1..4
            /\ StartsWith(r.result.val[1], config.domain)
            /\ Len(r.result.val[1]) > Len(config.domain)

C3_Witness ==
    /\ \E r \in Handled : r.button_index = 4 /\ r.result.ok /\ Len(r.result.val[2]) = 4
    /\ \E r \in Handled : r.button_index = 3 /\ r.result.ok /\ Len(r.result.val[2]) = 2

\* C4: the table is exactly 1 -> buy_boost.png [Confirm, Back];
\* 2 -> add_liquidity.png [Add, Back]; 3 -> gift.png [Send Gift, Back];
\* 4 -> more.png [Reward, Bid, Top-up, Back], labels in that order.
C4_Table ==
    \A r \in Handled :
        /\ r.button_index = 1 =>
              r.result = [ok |-> TRUE, val |->
                  <<config.domain \o "/assets/buy_boost.png",
                    <<[label |-> "Confirm"], [label |-> "Back"]>> >>]
        /\ r.button_index = 2 =>
              r.result = [ok |-> TRUE, val |->
                  <<config.domain \o "/assets/add_liquidity.png",
                    <<[label |-> "Add"], [label |-> "Back"]>> >>]
        /\ r.button_index = 3 =>
              r.result = [ok |-> TRUE, val |->
                  <<config.domain \o "/assets/gift.png",
                    <<[label |-> "Send Gift"], [label |-> "Back"]>> >>]
        /\ r.button_index = 4 =>
              r.result = [ok |-> TRUE, val |->
                  <<config.domain \o "/assets/more.png",
                    <<[label |-> "Reward"], [label |-> "Bid"],
                      [label |-> "Top-up"], [label |-> "Back"]>> >>]

C4_Witness ==
    /\ \E r \in Handled : r.button_index = 1 /\ r.result.ok
    /\ \E r \in Handled : r.button_index = 4 /\ r.result.ok

\* the interaction each entry label names
EntryInteraction ==
    [l \in {"Buy & Boost", "Add Liquidity", "Gift", "More"} |->
        CASE l = "Buy & Boost"   -> "buy_boost"
          [] l = "Add Liquidity" -> "add_liquidity"
          [] l = "Gift"          -> "gift"
          [] l = "More"          -> "more"]

\* C5: the entry card has exactly four buttons, Buy & Boost, Add Liquidity,
\* Gift, More; the button at position k resolves, without error, to the
\* interaction its label names; and every index that resolves is the position
\* of an entry button.
C5_EntryMatchesTable ==
    /\ \A e \in Entered :
          /\ e.ret.ok
          /\ ParseFrame(e.ret.val.body).buttons =
                 <<"Buy & Boost", "Add Liquidity", "Gift", "More">>
    /\ \A r \in Handled :
          /\ (r.pos >= 1 /\ r.label \in DOMAIN EntryInteraction) =>
                /\ r.result.ok
                /\ r.result.val[1] =
                       config.domain \o "/assets/" \o EntryInteraction[r.label] \o ".png"
          /\ r.result.ok => r.button_index \in 1..4

C5_Witness ==
    /\ \E r \in Handled : r.pos = 2 /\ r.label = "Add Liquidity" /\ r.result.ok
    /\ \E r \in Handled : r.pos = 3 /\ r.label = "Gift" /\ r.result.ok

\* C6: the entry renderer succeeds for every domain and emits image
\* domain/assets/main.png, post URL domain/api/frame and the buttons
\* Buy & Boost, Add Liquidity, Gift, More, whatever was requested before.
C6_EntryAlwaysRendered ==
    \A e \in Entered :
        /\ e.by = "index"
        /\ e.ret.ok
        /\ e.ret.val.status = 200
        /\ LET f == ParseFrame(e.ret.val.body)
           IN  /\ f.image = config.domain \o "/assets/main.png"
               /\ f.post_url = config.domain \o "/api/frame"
               /\ f.buttons = <<"Buy & Boost", "Add Liquidity", "Gift", "More">>

C6_Witness ==
    /\ card # NoCard
    /\ \E e \in Entered : e.ret.ok
    /\ \E r \in Handled : ~r.result.ok

\* C7: whatever requests came before or overlap, two process_button calls
\* with the same index and domain returned the same result, the responses
\* built from them agree, and every call read the configuration as it is now.
C7_Pure ==
    /\ \A r \in Handled : r.domain = config.domain
    /\ \A r1, r2 \in Handled :
          (r1.button_index = r2.button_index /\ r1.domain = r2.domain) =>
              /\ r1.result = r2.result
              /\ r1.ret = r2.ret

C7_Witness ==
    /\ card # NoCard
    /\ \E r1, r2 \in Handled :
          /\ r1 # r2
          /\ r1.button_index = r2.button_index
          /\ r1.button_index = 2

\* C8: for every index in the table the response is the resolver's next state
\* unchanged: same image, same buttons in the same order; never the fallback.
C8_ResponseIsNextState ==
    \A r \in Handled :
        r.button_index \in {1, 2, 3, 4} =>
            /\ r.result.ok
            /\ r.ret.ok
            /\ r.ret.val.body.image = r.result.val[1]
            /\ r.ret.val.body.buttons = r.result.val[2]
            /\ r.ret.val.body.image # MainImage

C8_Witness ==
    \E r \in Handled :
        /\ r.button_index = 4
        /\ r.ret.ok
        /\ Len(r.ret.val.body.buttons) = 4

IsDigits(s) == Len(s) >= 1 /\ \A i \in 1..Len(s) : \E d \in 1..10 : SubSeq(s, i, i) = Digits[d]

DigitValue(c) == (CHOOSE d \in 1..10 : Digits[d] = c) - 1

RECURSIVE ParseUsize(_)
ParseUsize(s) ==
    IF Len(s) = 1 THEN DigitValue(s)
    ELSE 10 * ParseUsize(SubSeq(s, 1, Len(s) - 1)) + DigitValue(SubSeq(s, Len(s), Len(s)))

ReasonPrefix == "Invalid button index: "

\* C9: a rejected index comes back as an Err value of the single kind
\* BadRequest whose reason is "Invalid button index: " followed by exactly
\* the index that was passed in.
C9_ReasonNamesIndex ==
    \A r \in Handled :
        ~r.result.ok =>
            /\ r.result.err.kind = "BadRequest"
            /\ StartsWith(r.result.err.msg, ReasonPrefix)
            /\ LET rest == SubSeq(r.result.err.msg, Len(ReasonPrefix) + 1,
                                  Len(r.result.err.msg))
               IN  /\ IsDigits(rest)
                   /\ (Len(rest) > 1 => SubSeq(rest, 1, 1) # "0")
                   /\ ParseUsize(rest) = r.button_index

C9_Witness ==
    /\ \E r \in Handled : r.button_index = 999 /\ ~r.result.ok
    /\ \E r \in Handled : r.button_index = 0 /\ ~r.result.ok

\* C10: the action endpoint returns the main entry image exactly when the
\* index is outside {1,2,3,4}; a press of "Back" or "Try Again" at position 2
\* is resolved by the same table and yields the add_liquidity frame.
C10_NoWayBack ==
    \A r \in Handled :
        /\ r.ret.ok
        /\ (r.ret.val.body.image = MainImage) <=> (r.button_index \notin {1, 2, 3, 4})
        /\ (r.pos = 2 /\ r.label \in {"Back", "Try Again"}) =>
              /\ r.ret.val.body.image = config.domain \o "/assets/add_liquidity.png"
              /\ r.ret.val.body.buttons = <<[label |-> "Add"], [label |-> "Back"]>>

C10_Witness ==
    /\ \E r \in Handled : r.pos = 2 /\ r.label = "Try Again"
    /\ \E r \in Handled : r.pos = 2 /\ r.label = "Back"

====
